---------------------------- MODULE Spec2Model ----------------------------
(***************************************************************************)
(* A model of the cost calculator for erasure-code commitment schemes:     *)
(* the code algebra of codes.py (Code, interleave, tensor, the sampling    *)
(* bound and the two code constructors), the Scheme record of schemes.py   *)
(* with its constructors and metrics, and the FRI parameter search of      *)
(* fri.py.                                                                 *)
(*                                                                         *)
(* The program is a library of pure functions over immutable records.  A   *)
(* state of the model is a client session: the codes and the scheme the    *)
(* client holds, and the last call it made with its arguments and result.  *)
(* Every function is an operator computed the way the code computes it; a  *)
(* raised exception is a result whose err field names the exception.       *)
(*                                                                         *)
(* Floating point.  The code takes base-2 logarithms of small rationals    *)
(* and rounds quotients of them up.  Log2Fx is log2 in fixed point with 24 *)
(* fractional bits, computed by repeated squaring of a mantissa held in    *)
(* two limbs so that no intermediate exceeds 31 bits.                      *)
(***************************************************************************)
EXTENDS Integers, Sequences, FiniteSets, TLC

VARIABLES
    code,    \* the Code the client holds
    scheme,  \* the Scheme the client holds
    call     \* the last call: operation, arguments, result

vars == <<code, scheme, call>>

-----------------------------------------------------------------------------
(* Bounds of the model *)

MaxLen == 4           \* largest k and n handed to a code constructor
MaxCodewordLen == 16  \* a tensor product is formed up to this codeword length
MaxEll == 2           \* largest interleaving factor
MaxSymbolSize == 10   \* a code is interleaved up to this symbol size

FieldSizes == {1, 5}  \* field and chunk sizes handed to the code constructors

MaxMink == 40         \* largest mink handed to friNumRounds
MaxFanin == 4         \* fanins 2 .. MaxFanin, and those of the grid
MaxBaseDim == 6       \* base dimensions 1 .. MaxBaseDim, and those of the grid

\* the numbers of field elements, the field sizes and the inverse rates the
\* FRI search is run on
MinFes == {0, 1, 3, 9, 100, 129, 1000, 5000}
FriInputs == (MinFes \X {128} \X {2, 4}) \cup (MinFes \X {90} \X {4})

-----------------------------------------------------------------------------
(* Results and exceptions *)

Ok(v) == [err |-> "none", val |-> v]
Raise(e) == [err |-> e, val |-> 0]
IsOk(r) == r.err = "none"

-----------------------------------------------------------------------------
(* Integer and fixed-point arithmetic standing for Python's int and float *)

Min(a, b) == IF a <= b THEN a ELSE b
Max(a, b) == IF a >= b THEN a ELSE b

\* math.ceil(a / b) for integers a and b # 0
CeilDiv(a, b) ==
    LET n == IF b < 0 THEN -a ELSE a
        d == IF b < 0 THEN -b ELSE b
    IN  IF n >= 0 THEN (n + d - 1) \div d ELSE -((-n) \div d)

\* <<(n * x) \div d, (n * x) % d>> from h, the same pair for n \div 2
MulDivModStep(h, n, x, d) ==
    LET r == 2 * h[2] + (n % 2) * x
    IN  <<2 * h[1] + r \div d, r % d>>

\* <<(n * x) \div d, (n * x) % d>> for n >= 0, x >= 0 and d > 0, by doubling,
\* so that no intermediate exceeds 2 * d + x
RECURSIVE MulDivMod(_, _, _)
MulDivMod(n, x, d) ==
    IF n = 0 THEN <<0, 0>>
    ELSE MulDivModStep(MulDivMod(n \div 2, x, d), n, x, d)

\* floor(log2(p)) for 1 <= p < 2^31
FloorLog2(p) == IF p < 2 THEN 0 ELSE CHOOSE e \in 1 .. 30 : p \div (2 ^ e) = 1

\* math.ceil(math.log2(p)) for p >= 1
CeilLog2(p) == IF p = 1 THEN 0 ELSE 1 + FloorLog2(p - 1)

\* 2**fsize >= n for fsize >= 0, without forming 2**fsize
PowerOfTwoAtLeast(fsize, n) == n <= 1 \/ CeilLog2(n) <= fsize

\* fixed point: One is 1.0, with 24 fractional bits; a mantissa has 28
\* fractional bits, in two limbs of 14 bits
One == 2 ^ 24
Limb == 2 ^ 14

\* the square of a mantissa m in [2^28, 2^29), as a mantissa in [2^28, 2^30)
SquareMant(m) ==
    LET a == m \div Limb
        b == m % Limb
    IN  a * a + ((a * b) \div (Limb \div 2)) + ((b * b) \div (Limb * Limb))

\* one squaring: st is <<mantissa, bits of the fraction found so far>>
Log2FracStep(st) ==
    LET s == SquareMant(st[1])
    IN  IF s >= 2 * Limb * Limb
        THEN <<s \div 2, 2 * st[2] + 1>>
        ELSE <<s, 2 * st[2]>>

\* bits squarings from st on (the squarings are done in two runs, the second
\* from the state the first ends in, to keep the evaluation shallow)
RECURSIVE Log2Frac(_, _)
RECURSIVE Log2FracHalves(_, _)
Log2FracHalves(st, bits) ==
    LET first == Log2Frac(st, bits \div 2)
    IN  IF Len(first) = 2 THEN Log2Frac(first, bits - bits \div 2) ELSE first

Log2Frac(st, bits) ==
    IF bits = 0 THEN st
    ELSE IF bits = 1 THEN Log2FracStep(st)
    ELSE Log2FracHalves(st, bits)

Log2Compute(p) ==
    LET e == FloorLog2(p)
    IN  e * One + Log2Frac(<<p * 2 ^ (28 - e), 0>>, 24)[2]

\* the logarithms of the small integers, computed once
Log2Table == [p \in 1 .. 64 |-> Log2Compute(p)]

\* math.log2(p) for an integer p >= 1, in units of 2^-24
Log2Fx(p) == IF p \in DOMAIN Log2Table THEN Log2Table[p] ELSE Log2Compute(p)

\* math.log2(math.e), in units of 2^-24
Log2E == 24204406

-----------------------------------------------------------------------------
(* codes.py *)

SECPAR_SOUND == 40

Code(sm, sc, ml, cl, rec, smp) ==
    [size_msg_symbol |-> sm, size_code_symbol |-> sc, msg_len |-> ml,
     codeword_len |-> cl, reception |-> rec, samples |-> smp]

\* no Code held yet
NoCode == Code(0, 0, 0, 0, 0, 0)

\* the members of class Code: its fields and its methods
CodeMembers ==
    {"size_msg_symbol", "size_code_symbol", "msg_len", "codeword_len",
     "reception", "samples", "interleave", "tensor", "__eq__", "is_identity"}

\* the regular coupon collector: ceil((n / log2(e)) * (log2(n) + sec_par))
CouponCollector(sec_par, n) ==
    LET a == Log2Fx(n) + sec_par * One
    IN  n * (a \div Log2E) + CeilDiv(n * (a % Log2E), Log2E)

\* the generalized coupon collector, c = delta / codeword_len:
\* ceil(-sec_par / log2(c) + (1 - log_c(e)) * delta)
\*   = delta + ceil((sec_par + delta * log2(e)) / -log2(c))
\* with the product delta * log2(e) divided limb by limb (MulDivMod)
GeneralizedCoupon(sec_par, delta, codeword_len) ==
    LET d == Log2Fx(codeword_len) - Log2Fx(delta)
        qr == MulDivMod(delta, Log2E, d)
    IN  IF d > 0
        THEN delta + qr[1] + CeilDiv(qr[2] + sec_par * One, d)
        ELSE delta + CeilDiv(sec_par * One + delta * Log2E, d)

samples_from_reception(sec_par, reception, codeword_len) ==
    IF reception = 1 THEN Ok(1)
    ELSE IF reception = codeword_len
    THEN IF codeword_len <= 0 THEN Raise("ValueError")
         ELSE Ok(CouponCollector(sec_par, codeword_len))
    ELSE IF codeword_len = 0 THEN Raise("ZeroDivisionError")
    ELSE IF reception - 1 < 0 \/ codeword_len < 0 THEN Raise("ValueError")
    ELSE IF reception - 1 = codeword_len THEN Raise("ZeroDivisionError")
    ELSE Ok(GeneralizedCoupon(sec_par, reception - 1, codeword_len))

\* a slip: only the codeword symbol grows
interleaveCodeSymbolOnly(self, ell) ==
    Code(self.size_msg_symbol, self.size_code_symbol * ell, self.msg_len,
         self.codeword_len, self.reception, self.samples)

interleave(self, ell) ==
    Code(self.size_msg_symbol * ell, self.size_code_symbol * ell, self.msg_len,
         self.codeword_len, self.reception, self.samples)

\* row_dist and col_dist of tensor
Dist(c) == c.codeword_len - c.reception + 1

\* a slip: the distances multiply, the final + 1 is lost
TensorReceptionOffByOne(self, col) ==
    self.codeword_len * col.codeword_len - Dist(self) * Dist(col)

TensorReception(self, col) ==
    self.codeword_len * col.codeword_len - Dist(self) * Dist(col) + 1

\* samples_direct_via_rows; with the factors swapped, samples_direct_via_cols:
\* ceil(-(lognc + logbinomr + SECPAR_SOUND) / loginnerr)
SamplesDirect(a, b) ==
    LET codeword_len == a.codeword_len * b.codeword_len
        lognc == Log2Fx(b.codeword_len)
        lognr == Log2Fx(a.codeword_len)
        logbinomr == (a.reception - 1) * (lognr + Log2E - Log2Fx(a.reception - 1))
        inner == codeword_len - Dist(a)
    IN  IF b.codeword_len <= 0 \/ a.codeword_len <= 0 \/ a.reception - 1 <= 0
        THEN Raise("ValueError")
        ELSE IF (inner <= 0) # (codeword_len < 0) THEN Raise("ValueError")
        ELSE IF inner = codeword_len THEN Raise("ZeroDivisionError")
        ELSE Ok(CeilDiv(lognc + logbinomr + SECPAR_SOUND * One,
                        Log2Fx(codeword_len) - Log2Fx(inner)))

tensor(self, col) ==
    IF \/ self.size_msg_symbol # col.size_msg_symbol
       \/ self.size_code_symbol # col.size_code_symbol
       \/ self.size_msg_symbol # self.size_code_symbol
    THEN Raise("AssertionError")
    ELSE
    LET codeword_len == self.codeword_len * col.codeword_len
        reception == TensorReception(self, col)
        samples_via_reception ==
            samples_from_reception(SECPAR_SOUND, reception, codeword_len)
        samples_direct_via_rows == SamplesDirect(self, col)
        samples_direct_via_cols == SamplesDirect(col, self)
    IN  IF ~IsOk(samples_via_reception) THEN samples_via_reception
        ELSE IF self.reception - 1 <= 0 \/ col.reception - 1 <= 0
        THEN Raise("ValueError")
        ELSE IF ~IsOk(samples_direct_via_rows) THEN samples_direct_via_rows
        ELSE IF ~IsOk(samples_direct_via_cols) THEN samples_direct_via_cols
        ELSE Ok(Code(self.size_msg_symbol,
                     self.size_code_symbol,
                     self.msg_len * col.msg_len,
                     codeword_len,
                     reception,
                     Min(Min(samples_direct_via_rows.val,
                             samples_direct_via_cols.val),
                         samples_via_reception.val)))

\* Code.__eq__
CodeEq(self, other) ==
    /\ self.size_msg_symbol = other.size_msg_symbol
    /\ self.size_code_symbol = other.size_code_symbol
    /\ self.msg_len = other.msg_len
    /\ self.codeword_len = other.codeword_len
    /\ self.reception = other.reception

is_identity(self) ==
    /\ self.size_msg_symbol = self.size_code_symbol
    /\ self.msg_len = self.codeword_len

makeTrivialCode(chunksize, k) ==
    LET s == samples_from_reception(SECPAR_SOUND, k, k)
    IN  IF ~IsOk(s) THEN s
        ELSE Ok(Code(chunksize, chunksize, k, k, k, s.val))

\* a slip: the two lengths change places
makeRSCodeSwappedLens(fsize, k, n) ==
    IF ~(k <= n) THEN Raise("AssertionError")
    ELSE IF ~PowerOfTwoAtLeast(fsize, n) THEN Raise("AssertionError")
    ELSE LET s == samples_from_reception(SECPAR_SOUND, k, n)
         IN  IF ~IsOk(s) THEN s
             ELSE Ok(Code(fsize, fsize, n, k, k, s.val))

makeRSCode(fsize, k, n) ==
    IF ~(k <= n) THEN Raise("AssertionError")
    ELSE IF ~PowerOfTwoAtLeast(fsize, n) THEN Raise("AssertionError")
    ELSE LET s == samples_from_reception(SECPAR_SOUND, k, n)
         IN  IF ~IsOk(s) THEN s
             ELSE Ok(Code(fsize, fsize, k, n, k, s.val))

-----------------------------------------------------------------------------
(* The client of the code algebra: it holds one Code, calls a constructor or a
   method of the Code it holds, and may bind the Code a call returned. *)

NoScheme == [code |-> NoCode, com_size |-> 0, opening_overhead |-> 0]
NoCall == [op |-> "none"]

\* the codes the two constructors return for the bounded arguments
LeafCodes ==
    {makeRSCode(fsize, k, n).val :
        <<fsize, k, n>> \in {a \in FieldSizes \X (0 .. MaxLen) \X (0 .. MaxLen) :
                                IsOk(makeRSCode(a[1], a[2], a[3]))}}
    \cup
    {makeTrivialCode(chunksize, k).val :
        <<chunksize, k>> \in {a \in FieldSizes \X (0 .. MaxLen) :
                                IsOk(makeTrivialCode(a[1], a[2]))}}

InitCode ==
    /\ code = NoCode
    /\ scheme = NoScheme
    /\ call = NoCall

MakeRSCodeCall ==
    \E fsize \in FieldSizes, k \in 0 .. MaxLen, n \in 0 .. MaxLen :
        /\ call' = [op |-> "makeRSCode", fsize |-> fsize, k |-> k, n |-> n,
                    ret |-> makeRSCode(fsize, k, n)]
        /\ UNCHANGED <<code, scheme>>

MakeTrivialCodeCall ==
    \E chunksize \in FieldSizes, k \in 0 .. MaxLen :
        /\ call' = [op |-> "makeTrivialCode", chunksize |-> chunksize, k |-> k,
                    ret |-> makeTrivialCode(chunksize, k)]
        /\ UNCHANGED <<code, scheme>>

InterleaveCall ==
    \E ell \in 1 .. MaxEll :
        /\ code # NoCode
        /\ code.size_code_symbol * ell <= MaxSymbolSize
        /\ call' = [op |-> "interleave", self |-> code, ell |-> ell,
                    ret |-> Ok(interleave(code, ell))]
        /\ UNCHANGED <<code, scheme>>

\* code.tensor(other) and other.tensor(code), other the held code or a leaf
TensorCall ==
    \E other \in LeafCodes \cup {code}, held \in {"self", "col"} :
        LET self == IF held = "self" THEN code ELSE other
            col == IF held = "self" THEN other ELSE code
        IN  /\ code # NoCode
            /\ self.codeword_len * col.codeword_len <= MaxCodewordLen
            /\ call' = [op |-> "tensor", self |-> self, col |-> col,
                        ret |-> tensor(self, col)]
            /\ UNCHANGED <<code, scheme>>

\* the client keeps the Code the last call returned
Bind ==
    /\ call.op \in {"makeRSCode", "makeTrivialCode", "interleave", "tensor"}
    /\ IsOk(call.ret)
    /\ code' = call.ret.val
    /\ UNCHANGED <<scheme, call>>

NextCode ==
    \/ MakeRSCodeCall
    \/ MakeTrivialCodeCall
    \/ InterleaveCall
    \/ TensorCall
    \/ Bind

SpecCode == InitCode /\ [][NextCode]_vars

-----------------------------------------------------------------------------
(* Properties of the code algebra, checked under SpecCode *)

\* C1: whenever tensor accepts row and col, the product has codeword_len =
\* row.codeword_len * col.codeword_len, msg_len = row.msg_len * col.msg_len and
\* reception = codeword_len - (row.codeword_len - row.reception + 1) *
\* (col.codeword_len - col.reception + 1) + 1; and the tensor of
\* makeRSCode(5, 2, 4) with itself is accepted with reception 8, each factor
\* having reception 2.
C1_TensorParameters ==
    call.op = "tensor" =>
        /\ IsOk(call.ret) =>
            LET row == call.self
                col == call.col
                t == call.ret.val
            IN  /\ t.codeword_len = row.codeword_len * col.codeword_len
                /\ t.msg_len = row.msg_len * col.msg_len
                /\ t.reception =
                       t.codeword_len
                       - (row.codeword_len - row.reception + 1)
                         * (col.codeword_len - col.reception + 1)
                       + 1
        /\ (/\ [call.self EXCEPT !.samples = 0] = Code(5, 5, 2, 4, 2, 0)
            /\ [call.col EXCEPT !.samples = 0] = Code(5, 5, 2, 4, 2, 0))
           => IsOk(call.ret) /\ call.ret.val.reception = 8

C1_Witness ==
    /\ call.op = "tensor"
    /\ IsOk(makeRSCode(5, 2, 4))
    /\ call.self = makeRSCode(5, 2, 4).val
    /\ call.col = makeRSCode(5, 2, 4).val
    /\ call.self.reception = 2
    /\ IsOk(call.ret)
    /\ call.ret.val.codeword_len = 16
    /\ call.ret.val.reception = 8

\* C4: makeRSCode(fsize, k, n) fails whenever k > n or 2^fsize < n, and for
\* every other input returns a Code with msg_len = k, codeword_len = n,
\* reception = k and both symbol sizes fsize.
C4_MakeRSCodeTotal ==
    call.op = "makeRSCode" =>
        IF call.k > call.n \/ 2 ^ call.fsize < call.n
        THEN ~IsOk(call.ret)
        ELSE /\ IsOk(call.ret)
             /\ call.ret.val.msg_len = call.k
             /\ call.ret.val.codeword_len = call.n
             /\ call.ret.val.reception = call.k
             /\ call.ret.val.size_msg_symbol = call.fsize
             /\ call.ret.val.size_code_symbol = call.fsize

\* C5: tensor fails when the factors differ in symbol size or a factor's two
\* symbol sizes differ, and returns a Code for every pair of factors made by
\* makeRSCode or makeTrivialCode (k >= 1) whose symbol sizes agree.
C5_TensorFailsOnlyOnSymbolSizes ==
    call.op = "tensor" =>
        LET mismatch ==
                \/ call.self.size_msg_symbol # call.col.size_msg_symbol
                \/ call.self.size_code_symbol # call.col.size_code_symbol
                \/ call.self.size_msg_symbol # call.self.size_code_symbol
                \/ call.col.size_msg_symbol # call.col.size_code_symbol
        IN  /\ mismatch => ~IsOk(call.ret)
            /\ (call.self \in LeafCodes /\ call.col \in LeafCodes /\ ~mismatch)
               => IsOk(call.ret)

\* C6: every Code built from makeRSCode and makeTrivialCode by interleave and
\* tensor has reception <= codeword_len and msg_len <= codeword_len.
C6_CodeInvariant ==
    LET Good(c) == c.reception <= c.codeword_len /\ c.msg_len <= c.codeword_len
    IN  /\ Good(code)
        /\ (call.op \in {"makeRSCode", "makeTrivialCode", "interleave", "tensor"}
            /\ IsOk(call.ret)) => Good(call.ret.val)

C6_Witness ==
    /\ call.op = "tensor"
    /\ IsOk(call.ret)
    /\ call.self.size_code_symbol = 10
    /\ call.self.codeword_len = 4
    /\ call.self.msg_len = 2
    /\ call.col = call.self
    /\ call.ret.val.reception < call.ret.val.codeword_len
    /\ code = call.ret.val

\* C7: a call of interleave(ell) on the held code returns a Code whose two
\* symbol sizes are the held code's times ell and whose msg_len, codeword_len,
\* reception and samples are the held code's, and leaves the held code as it
\* was; with ell = 1 the result equals the held code under __eq__.
C7_Interleave ==
    [][(call'.op = "interleave" /\ (call.op # "interleave" \/ call' # call)) =>
        /\ IsOk(call'.ret)
        /\ call'.self = code
        /\ call'.ret.val.size_msg_symbol = code.size_msg_symbol * call'.ell
        /\ call'.ret.val.size_code_symbol = code.size_code_symbol * call'.ell
        /\ call'.ret.val.msg_len = code.msg_len
        /\ call'.ret.val.codeword_len = code.codeword_len
        /\ call'.ret.val.reception = code.reception
        /\ call'.ret.val.samples = code.samples
        /\ code' = code
        /\ call'.ell = 1 => CodeEq(call'.ret.val, code)]_vars

C7_Witness ==
    /\ call.op = "interleave"
    /\ call.ell = 2
    /\ call.self.codeword_len = 16
    /\ call.self.size_code_symbol = 5
    /\ call.ret.val.size_code_symbol = 10
    /\ code = call.self

-----------------------------------------------------------------------------
(* schemes.py *)

\* BLS_FE_SIZE, BLS_GE_SIZE = 48.0 * 8.0
BLS_FE_SIZE == 384
BLS_GE_SIZE == 384
\* PEDERSEN_FE_SIZE = 32.0 * 8.0, PEDERSEN_GE_SIZE = 33.0 * 8.0
PEDERSEN_FE_SIZE == 256
PEDERSEN_GE_SIZE == 264
HASH_SIZE == 256

Scheme(c, com, overhead) ==
    [code |-> c, com_size |-> com, opening_overhead |-> overhead]

\* a float as whole + frac / One, with 0 <= frac < One
Float(w, f) == [whole |-> w, frac |-> f]
\* the product of a float x >= 0 and an integer n >= 0
FloatTimes(x, n) ==
    Float(x.whole * n + MulDivMod(n, x.frac, One)[1], MulDivMod(n, x.frac, One)[2])

\* math.ceil(math.sqrt(m)) for m >= 0
RECURSIVE CeilSqrtFrom(_, _)
CeilSqrtFrom(m, k) == IF k * k >= m THEN k ELSE CeilSqrtFrom(m, k + 1)
CeilSqrt(m) == CeilSqrtFrom(m, 0)

\* self.code.num_samples_to_reconstruction(sec_par): the attribute is looked up
\* on a Code, and a Code has the members CodeMembers only
samples(self, sec_par) ==
    IF "num_samples_to_reconstruction" \in CodeMembers
    THEN Ok(self.code.samples)
    ELSE Raise("AttributeError")

comm_per_query(self) ==
    IF self.code.codeword_len <= 0 THEN Raise("ValueError")
    ELSE Ok(Float(FloorLog2(self.code.codeword_len) + self.opening_overhead
                      + self.code.size_code_symbol,
                  Log2Fx(self.code.codeword_len) % One))

total_comm(self) ==
    LET q == comm_per_query(self)
        n == samples(self, SECPAR_SOUND)
    IN  IF ~IsOk(q) THEN q
        ELSE IF ~IsOk(n) THEN n
        ELSE Ok(FloatTimes(q.val, n.val))

encoding_size(self) ==
    self.code.codeword_len * (self.opening_overhead + self.code.size_code_symbol)

\* Code(...) is called without the required field samples
makeNaiveScheme(datasize) == Raise("TypeError")

makeMerkleScheme(datasize, chunksize) == Raise("TypeError")

makeKZGScheme(datasize, invrate) ==
    LET k == CeilDiv(datasize, BLS_FE_SIZE)
        c == makeRSCode(BLS_FE_SIZE, k, k * invrate)
    IN  IF ~IsOk(c) THEN c
        ELSE Ok(Scheme(c.val, BLS_GE_SIZE, BLS_GE_SIZE))

makeTensorScheme(datasize, invrate) ==
    LET m == CeilDiv(datasize, BLS_FE_SIZE)
        k == CeilSqrt(m)
        n == invrate * k
        rs == makeRSCode(BLS_FE_SIZE, k, n)
        t == tensor(rs.val, rs.val)
    IN  IF m < 0 THEN Raise("ValueError")
        ELSE IF ~IsOk(rs) THEN rs
        ELSE IF ~IsOk(t) THEN t
        ELSE Ok(Scheme(t.val, BLS_GE_SIZE * k, BLS_GE_SIZE))

makeHashBasedScheme(datasize, fsize, P, L, invrate) ==
    LET m == CeilDiv(datasize, fsize)
        k == CeilSqrt(m)
        n == invrate * k
        rs == makeRSCode(fsize, k, n)
    IN  IF m < 0 THEN Raise("ValueError")
        ELSE IF ~IsOk(rs) THEN rs
        ELSE Ok(Scheme(interleave(rs.val, k),
                       n * HASH_SIZE + P * n * fsize + L * k * fsize,
                       0))

makeHomHashBasedScheme(datasize, P, L, invrate) ==
    LET m == CeilDiv(datasize, PEDERSEN_FE_SIZE)
        k == CeilSqrt(m)
        n == invrate * k
        rs == makeRSCode(PEDERSEN_FE_SIZE, k, n)
    IN  IF m < 0 THEN Raise("ValueError")
        ELSE IF ~IsOk(rs) THEN rs
        ELSE Ok(Scheme(interleave(rs.val, k),
                       n * PEDERSEN_GE_SIZE + P * n * PEDERSEN_FE_SIZE
                           + L * k * PEDERSEN_FE_SIZE,
                       0))

-----------------------------------------------------------------------------
(* fri.py.  A rate is 1.0 / invrate and is carried as invrate; ncurr * rate >
   basedimension is ncurr > basedimension * invrate. *)

GRINDING == 20
RO_QUERIES == 60
STATISTICAL_SECURITY == 40
FRI_SOUNDNESS == STATISTICAL_SECURITY + RO_QUERIES - GRINDING

sizeMerkleOpening(numleafs, tuplesize, fsize) ==
    IF numleafs <= 0 THEN Raise("ValueError")
    ELSE LET tupleItself == tuplesize * fsize
             sibling == tuplesize * fsize
             treedepth == CeilLog2(numleafs)
             copath == (treedepth - 1) * HASH_SIZE
         IN  Ok(tupleItself + sibling + copath)

\* the loop of friAuthSize, from the layer of ncurr elements on
RECURSIVE friAuthSizeLoop(_, _, _, _, _, _)
friAuthSizeLoop(ncurr, size, invrate, fsize, fanin, basedimension) ==
    IF ~(ncurr > basedimension * invrate) THEN Ok(size)
    ELSE IF fanin = 0 THEN Raise("ZeroDivisionError")
    ELSE LET numleafs == ncurr \div fanin
             opening == sizeMerkleOpening(numleafs, fanin, fsize)
         IN  IF ~IsOk(opening) THEN opening
             ELSE friAuthSizeLoop(numleafs, size + opening.val, invrate, fsize,
                                  fanin, basedimension)

friAuthSize(domainsize, invrate, fsize, batchsize, fanin, basedimension) ==
    LET batch == sizeMerkleOpening(domainsize, batchsize, fsize)
    IN  IF batchsize > 1 /\ ~IsOk(batch) THEN batch
        ELSE friAuthSizeLoop(domainsize,
                             IF batchsize > 1 THEN batch.val ELSE 0,
                             invrate, fsize, fanin, basedimension)

\* the loop of friNumRounds
RECURSIVE friNumRoundsLoopUntilAbove(_, _, _, _)
friNumRoundsLoopUntilAbove(dimension, rnd, mink, fanin) ==
    IF dimension <= mink
    THEN friNumRoundsLoopUntilAbove(dimension * fanin, rnd + 1, mink, fanin)
    ELSE rnd

RECURSIVE friNumRoundsLoop(_, _, _, _)
friNumRoundsLoop(dimension, rnd, mink, fanin) ==
    IF dimension < mink
    THEN friNumRoundsLoop(dimension * fanin, rnd + 1, mink, fanin)
    ELSE rnd

friNumRounds(mink, fanin, basedimension) ==
    friNumRoundsLoop(basedimension, 0, mink, fanin)

\* logeps1 of friNumRepetitions
LogEps1(domainsize, fsize, batchsize, fanin) ==
    1 + CeilLog2(domainsize * (Max(fanin, batchsize) - 1)) - fsize

friNumRepetitionsUnchecked(invrate, domainsize, fsize, batchsize, fanin) ==
    IF domainsize * (Max(fanin, batchsize) - 1) <= 0 THEN Raise("ValueError")
    ELSE LET logbase == Log2Fx(invrate + 1) - One - Log2Fx(invrate)
         IN  IF ~(logbase < 0) THEN Raise("AssertionError")
             ELSE Ok(CeilDiv(-FRI_SOUNDNESS * One, logbase))

friNumRepetitions(invrate, domainsize, fsize, batchsize, fanin) ==
    IF domainsize * (Max(fanin, batchsize) - 1) <= 0 THEN Raise("ValueError")
    ELSE IF ~(LogEps1(domainsize, fsize, batchsize, fanin) <= -FRI_SOUNDNESS)
    THEN Raise("AssertionError")
    \* base = 1 - 0.5 * (1 - rate) = (invrate + 1) / (2 * invrate)
    ELSE LET logbase == Log2Fx(invrate + 1) - One - Log2Fx(invrate)
         IN  IF ~(logbase < 0) THEN Raise("AssertionError")
             ELSE Ok(CeilDiv(-FRI_SOUNDNESS * One, logbase))

\* currauthsize of friGoodBatchsize for the batch size b
BatchAuthSize(minfe, fsize, invrate, basedimension, fanin, b) ==
    LET mink == CeilDiv(minfe, b)
        r == friNumRounds(mink, fanin, basedimension)
    IN  friAuthSize(basedimension * (fanin ^ r) * invrate, invrate, fsize, b,
                    fanin, basedimension).val

\* the update of friGoodBatchsize's loop for the batch size b of
\* authentication size currauthsize; st is <<batchsize, minauthsize>>
friGoodBatchsizeUpdateStrict(b, st, currauthsize) ==
    IF currauthsize < st[2] THEN <<b, currauthsize>> ELSE st

friGoodBatchsizeUpdate(b, st, currauthsize) ==
    IF currauthsize <= st[2] THEN <<b, currauthsize>> ELSE st

\* the iterations lo, lo + 1, ..., hi of the loop, in this order, from st on
\* (the range is halved to keep the evaluation shallow: the second half
\* starts from the state the first half ends in)
RECURSIVE friGoodBatchsizeLoop(_, _, _, _, _, _, _, _)
RECURSIVE friGoodBatchsizeHalves(_, _, _, _, _, _, _, _, _)
friGoodBatchsizeHalves(lo, mid, hi, st, minfe, fsize, invrate, basedimension, fanin) ==
    LET first == friGoodBatchsizeLoop(lo, mid, st, minfe, fsize, invrate,
                                      basedimension, fanin)
    IN  IF Len(first) = 2
        THEN friGoodBatchsizeLoop(mid + 1, hi, first, minfe, fsize, invrate,
                                  basedimension, fanin)
        ELSE first

friGoodBatchsizeLoop(lo, hi, st, minfe, fsize, invrate, basedimension, fanin) ==
    IF lo = hi
    THEN friGoodBatchsizeUpdate(lo, st,
             BatchAuthSize(minfe, fsize, invrate, basedimension, fanin, lo))
    ELSE friGoodBatchsizeHalves(lo, (lo + hi) \div 2, hi, st, minfe, fsize,
                                invrate, basedimension, fanin)

\* batchsizerange = range(1, 257)
friGoodBatchsize(minfe, fsize, invrate, basedimension, fanin) ==
    friGoodBatchsizeLoop(1, 256,
                         <<1, BatchAuthSize(minfe, fsize, invrate,
                                            basedimension, fanin, 1)>>,
                         minfe, fsize, invrate, basedimension, fanin)[1]

faninrange == <<4, 8, 16>>
basedimensionrange == <<2, 4, 6, 8, 16, 32, 64, 128>>

\* the pairs (fanin, basedimension) in the order the two loops visit them
GridPairs ==
    [i \in 1 .. Len(faninrange) * Len(basedimensionrange) |->
        <<faninrange[((i - 1) \div Len(basedimensionrange)) + 1],
          basedimensionrange[((i - 1) % Len(basedimensionrange)) + 1]>>]

\* gap of friGoodParameters for one pair and its batch size
Gap(minfe, batchsize, fanin, basedimension) ==
    basedimension
        * (fanin ^ friNumRounds(CeilDiv(minfe, batchsize), fanin, basedimension))
    - CeilDiv(minfe, batchsize)

\* batchsize and gap of friGoodParameters for one pair
GridCandidateOf(batchsize, minfe, fanin, basedimension) ==
    [batchsize |-> batchsize,
     gap |-> Gap(minfe, batchsize, fanin, basedimension)]

GridCandidate(minfe, fsize, invrate, fanin, basedimension) ==
    GridCandidateOf(friGoodBatchsize(minfe, fsize, invrate, basedimension, fanin),
                    minfe, fanin, basedimension)

\* whether friGoodParameters replaces its optimum, given mingap and the gap
BetterStrict(mingap, gap) == mingap = -1 \/ (gap >= 0 /\ gap < mingap)

Better(mingap, gap) == mingap = -1 \/ (gap >= 0 /\ gap <= mingap)

\* the update of friGoodParameters's loop for the i-th pair and its
\* candidate c; st is <<optbatchsize, optfanin, optbasedimension, mingap>>
friGoodParametersUpdate(i, st, c) ==
    IF Better(st[4], c.gap)
    THEN <<c.batchsize, GridPairs[i][1], GridPairs[i][2], c.gap>>
    ELSE st

\* the iterations for the pairs lo, lo + 1, ..., hi, in this order, from st on
\* (the range is halved to keep the evaluation shallow: the second half
\* starts from the state the first half ends in)
RECURSIVE friGoodParametersLoop(_, _, _, _, _, _)
RECURSIVE friGoodParametersHalves(_, _, _, _, _, _, _)
friGoodParametersHalves(lo, mid, hi, st, minfe, fsize, invrate) ==
    LET first == friGoodParametersLoop(lo, mid, st, minfe, fsize, invrate)
    IN  IF Len(first) = 4
        THEN friGoodParametersLoop(mid + 1, hi, first, minfe, fsize, invrate)
        ELSE first

friGoodParametersLoop(lo, hi, st, minfe, fsize, invrate) ==
    IF lo = hi
    THEN friGoodParametersUpdate(
             lo, st,
             GridCandidate(minfe, fsize, invrate, GridPairs[lo][1], GridPairs[lo][2]))
    ELSE friGoodParametersHalves(lo, (lo + hi) \div 2, hi, st, minfe, fsize,
                                 invrate)

friGoodParameters(minfe, fsize, invrate) ==
    SubSeq(friGoodParametersLoop(1, Len(GridPairs), <<0, 0, 0, -1>>, minfe,
                                 fsize, invrate), 1, 3)

\* makeFRIScheme from the number of rounds r on; beside the Scheme the
\* result carries the configuration chosen
makeFRISchemeRounds(minfe, invrate, fsize, batchsize, fanin, basedimension, r) ==
    LET k == basedimension * (fanin ^ r)
        n == invrate * k
        L == friNumRepetitions(invrate, n, fsize, batchsize, fanin)
        authsize == friAuthSize(n, invrate, fsize, batchsize, fanin, basedimension)
        rs == makeRSCode(fsize, k, n)
        final == basedimension * fsize
        openings == L.val * authsize.val
        roots == r * HASH_SIZE + (IF batchsize > 1 THEN 1 ELSE 0) * HASH_SIZE
    IN  IF ~IsOk(L) THEN L
        ELSE IF ~IsOk(authsize) THEN authsize
        ELSE IF ~IsOk(rs) THEN rs
        ELSE [err |-> "none",
              val |-> Scheme(interleave(rs.val, batchsize),
                             roots + final + openings,
                             authsize.val - batchsize * fsize),
              config |-> [minfe |-> minfe, batchsize |-> batchsize,
                          fanin |-> fanin, basedimension |-> basedimension,
                          rounds |-> r, k |-> k, domainsize |-> n,
                          repetitions |-> L.val, authsize |-> authsize.val]]

\* makeFRIScheme that takes no round: k = basedimension whatever mink is
makeFRISchemeParamsNoRounds(minfe, invrate, fsize, params) ==
    makeFRISchemeRounds(minfe, invrate, fsize, params[1], params[2], params[3], 0)

\* makeFRIScheme from the parameters <<batchsize, fanin, basedimension>> on
makeFRISchemeParams(minfe, invrate, fsize, params) ==
    makeFRISchemeRounds(minfe, invrate, fsize, params[1], params[2], params[3],
                        friNumRounds(CeilDiv(minfe, params[1]), params[2], params[3]))

makeFRIScheme(datasize, invrate, fsize) ==
    makeFRISchemeParams(CeilDiv(datasize, fsize), invrate, fsize,
                        friGoodParameters(CeilDiv(datasize, fsize), fsize, invrate))

-----------------------------------------------------------------------------
(* The FRI search: a call is drawn with its arguments and then returns *)

Called(c) == c @@ [pc |-> "called", ret |-> Raise("none yet")]
Returned(r) == [call EXCEPT !.pc = "returned", !.ret = r]

FriFanins == (2 .. MaxFanin) \cup {faninrange[i] : i \in DOMAIN faninrange}
FriBaseDims ==
    (1 .. MaxBaseDim) \cup {basedimensionrange[i] : i \in DOMAIN basedimensionrange}

\* the data sizes that need minfe field elements of size fsize: a whole
\* number of field elements, and one bit more than a whole number
DataSizes(minfe, fsize) ==
    IF minfe = 0 THEN {0} ELSE {minfe * fsize, (minfe - 1) * fsize + 1}

FriCalls ==
    {[op |-> "friNumRounds", mink |-> a[1], fanin |-> a[2], basedimension |-> a[3]] :
        a \in (0 .. MaxMink) \X FriFanins \X FriBaseDims}
    \cup
    {[op |-> "friGoodBatchsize", minfe |-> a[1][1], fsize |-> a[1][2],
      invrate |-> a[1][3], basedimension |-> a[2][2], fanin |-> a[2][1]] :
        a \in FriInputs \X {GridPairs[i] : i \in DOMAIN GridPairs}}
    \cup
    {[op |-> "friGoodParameters", minfe |-> a[1], fsize |-> a[2], invrate |-> a[3]] :
        a \in FriInputs}
    \cup
    UNION {{[op |-> "makeFRIScheme", datasize |-> d, invrate |-> a[3], fsize |-> a[2]] :
               d \in DataSizes(a[1], a[2])} : a \in FriInputs}

InitFRI ==
    /\ code = NoCode
    /\ scheme = NoScheme
    /\ call \in {Called(c) : c \in FriCalls}

FriNumRoundsCall ==
    /\ call.op = "friNumRounds" /\ call.pc = "called"
    /\ call' = Returned(Ok(friNumRounds(call.mink, call.fanin, call.basedimension)))
    /\ UNCHANGED <<code, scheme>>

FriGoodBatchsizeCall ==
    /\ call.op = "friGoodBatchsize" /\ call.pc = "called"
    /\ call' = Returned(Ok(friGoodBatchsize(call.minfe, call.fsize, call.invrate,
                                            call.basedimension, call.fanin)))
    /\ UNCHANGED <<code, scheme>>

FriGoodParametersCall ==
    /\ call.op = "friGoodParameters" /\ call.pc = "called"
    /\ call' = Returned(Ok(friGoodParameters(call.minfe, call.fsize, call.invrate)))
    /\ UNCHANGED <<code, scheme>>

MakeFRISchemeCall ==
    /\ call.op = "makeFRIScheme" /\ call.pc = "called"
    /\ call' = Returned(makeFRIScheme(call.datasize, call.invrate, call.fsize))
    /\ scheme' = IF IsOk(call'.ret) THEN call'.ret.val ELSE scheme
    /\ UNCHANGED code

NextFRI ==
    \/ FriNumRoundsCall
    \/ FriGoodBatchsizeCall
    \/ FriGoodParametersCall
    \/ MakeFRISchemeCall

SpecFRI == InitFRI /\ [][NextFRI]_vars

-----------------------------------------------------------------------------
(* Properties of the FRI search, checked under SpecFRI *)

\* C8: friNumRounds(mink, fanin, basedimension) returns, and what it returns
\* is the smallest r >= 0 with basedimension * fanin^r >= mink: r = 0 when
\* basedimension >= mink, and every smaller r leaves the dimension below mink
C8_FriNumRoundsSmallest ==
    (call.op = "friNumRounds" /\ call.pc = "returned") =>
        /\ IsOk(call.ret)
        /\ call.ret.val >= 0
        /\ call.basedimension * (call.fanin ^ call.ret.val) >= call.mink
        /\ \A r \in 0 .. call.ret.val - 1 :
               call.basedimension * (call.fanin ^ r) < call.mink
        /\ (call.basedimension >= call.mink) => call.ret.val = 0

\* friNumRounds(18, 3, 2) has returned 2: the dimension 2 * 3^2 equals mink
C8_Witness ==
    /\ call.op = "friNumRounds" /\ call.pc = "returned"
    /\ call.mink = 18 /\ call.fanin = 3 /\ call.basedimension = 2
    /\ call.ret.val = 2

\* the batch size best, of authentication size least, is the largest batch
\* size in 1 .. 256 of the smallest authentication size
IsLargestArgmin(best, least, minfe, fsize, invrate, basedimension, fanin) ==
    /\ best \in 1 .. 256
    /\ \A b \in 1 .. 256 :
           LET a == BatchAuthSize(minfe, fsize, invrate, basedimension, fanin, b)
           IN  a >= least /\ (b > best => a > least)

\* C10: friGoodBatchsize returns a b in 1 .. 256 whose authentication size
\* friAuthSize(basedimension * fanin^r_b * invrate, ...), with r_b =
\* friNumRounds(ceil(minfe / b), fanin, basedimension), is the minimum over
\* 1 .. 256, and it returns the largest b that attains the minimum
C10_FriGoodBatchsizeArgmin ==
    (call.op = "friGoodBatchsize" /\ call.pc = "returned") =>
        /\ IsOk(call.ret)
        /\ IsLargestArgmin(call.ret.val,
                           BatchAuthSize(call.minfe, call.fsize, call.invrate,
                                         call.basedimension, call.fanin,
                                         call.ret.val),
                           call.minfe, call.fsize, call.invrate,
                           call.basedimension, call.fanin)

\* friGoodBatchsize(100, 128, 2, 2, 4) has returned 13, and the batch sizes 1
\* and 4 have the authentication size of 13
C10_Witness ==
    /\ call.op = "friGoodBatchsize" /\ call.pc = "returned"
    /\ call.minfe = 100 /\ call.fsize = 128 /\ call.invrate = 2
    /\ call.basedimension = 2 /\ call.fanin = 4
    /\ call.ret.val = 13
    /\ BatchAuthSize(100, 128, 2, 2, 4, 1) = BatchAuthSize(100, 128, 2, 2, 4, 13)
    /\ BatchAuthSize(100, 128, 2, 2, 4, 4) = BatchAuthSize(100, 128, 2, 2, 4, 13)

\* the index of the pair (fanin, basedimension) in the scan order, 0 if none
GridIndex(fanin, basedimension) ==
    IF \E i \in DOMAIN GridPairs : GridPairs[i] = <<fanin, basedimension>>
    THEN CHOOSE i \in DOMAIN GridPairs : GridPairs[i] = <<fanin, basedimension>>
    ELSE 0

\* the pair of index at, of gap least, has the smallest gap of the grid, each
\* pair taken with its own friGoodBatchsize batch size, and no later pair has
\* that gap
IsLatestSmallestGap(at, least, minfe, fsize, invrate) ==
    \A i \in DOMAIN GridPairs :
        LET c == GridCandidate(minfe, fsize, invrate, GridPairs[i][1],
                               GridPairs[i][2])
        IN  c.gap >= least /\ (i > at => c.gap > least)

\* params = <<batchsize, fanin, basedimension>> is what C9 says of the result
IsGoodParameters(params, minfe, fsize, invrate) ==
    /\ GridIndex(params[2], params[3]) # 0
    /\ params[1] = friGoodBatchsize(minfe, fsize, invrate, params[3], params[2])
    /\ Gap(minfe, params[1], params[2], params[3]) >= 0
    /\ IsLatestSmallestGap(GridIndex(params[2], params[3]),
                           Gap(minfe, params[1], params[2], params[3]),
                           minfe, fsize, invrate)

\* C9: friGoodParameters returns (batchsize, fanin, basedimension) with fanin
\* in {4, 8, 16} and basedimension in {2, 4, 6, 8, 16, 32, 64, 128}, whose gap
\* basedimension * fanin^rounds - ceil(minfe / batchsize) is non-negative and
\* the smallest over the 24 pairs, each with its own friGoodBatchsize batch
\* size; of the pairs of that gap the latest in scan order is returned
C9_FriGoodParametersLatestSmallestGap ==
    (call.op = "friGoodParameters" /\ call.pc = "returned") =>
        /\ IsOk(call.ret)
        /\ call.ret.val[2] \in {4, 8, 16}
        /\ call.ret.val[3] \in {2, 4, 6, 8, 16, 32, 64, 128}
        /\ IsGoodParameters(call.ret.val, call.minfe, call.fsize, call.invrate)

\* friGoodParameters(100, 128, 4) has returned (13, 16, 8), of gap 0, and the
\* first pair (4, 2) has gap 0 too
C9_Witness ==
    /\ call.op = "friGoodParameters" /\ call.pc = "returned"
    /\ call.minfe = 100 /\ call.fsize = 128 /\ call.invrate = 4
    /\ call.ret.val = <<13, 16, 8>>
    /\ Gap(100, 13, 16, 8) = 0
    /\ GridCandidate(100, 128, 4, 4, 2).gap = 0

\* logeps1 as C3 states it, for the configuration params = <<batchsize,
\* fanin, basedimension>> and the domain size n
StatedLogEps1(n, fsize, params) ==
    1 + CeilLog2(n * (Max(params[2], params[1]) - 1)) - fsize

\* the domain size n = invrate * basedimension * fanin^rounds of params
DomainSizeOf(minfe, invrate, params) ==
    invrate * params[3]
        * (params[2] ^ friNumRounds(CeilDiv(minfe, params[1]), params[2], params[3]))

\* logeps1 of the configuration makeFRIScheme chooses for its arguments
ChosenLogEps1(minfe, invrate, fsize, params) ==
    StatedLogEps1(DomainSizeOf(minfe, invrate, params), fsize, params)

\* C3: makeFRIScheme returns a Scheme only if logeps1 of the configuration it
\* chose is at most -FRI_SOUNDNESS = -80; when logeps1 is above -80 the call
\* fails and the caller is left with no Scheme
C3_FriSoundnessGate ==
    (call.op = "makeFRIScheme" /\ call.pc = "returned") =>
        LET logeps1 ==
                ChosenLogEps1(CeilDiv(call.datasize, call.fsize), call.invrate,
                              call.fsize,
                              friGoodParameters(CeilDiv(call.datasize, call.fsize),
                                                call.fsize, call.invrate))
        IN  /\ FRI_SOUNDNESS = 80
            /\ IsOk(call.ret) =>
                   /\ logeps1 <= -FRI_SOUNDNESS
                   /\ call.ret.config.domainsize
                          = call.invrate * call.ret.config.basedimension
                              * (call.ret.config.fanin ^ call.ret.config.rounds)
                   /\ StatedLogEps1(call.ret.config.domainsize, call.fsize,
                                    <<call.ret.config.batchsize,
                                      call.ret.config.fanin,
                                      call.ret.config.basedimension>>)
                          <= -FRI_SOUNDNESS
            /\ logeps1 > -FRI_SOUNDNESS =>
                   (~IsOk(call.ret) /\ scheme = NoScheme)

\* makeFRIScheme(5000 * 90, 4, 90) has failed on its assertion: the chosen
\* configuration (20, 16, 16) has the domain size 1024 and logeps1 = -74
C3_Witness ==
    /\ call.op = "makeFRIScheme" /\ call.pc = "returned"
    /\ call.datasize = 5000 * 90 /\ call.invrate = 4 /\ call.fsize = 90
    /\ call.ret.err = "AssertionError"
    /\ scheme = NoScheme
    /\ StatedLogEps1(1024, 90, <<20, 16, 16>>) = -74

\* C11: whenever makeFRIScheme, called on datasize >= 1, returns a Scheme,
\* its opening_overhead is authsize - batchsize * fsize and is non-negative,
\* also when the chosen configuration has rounds = 0 and batchsize = 1
C11_OpeningOverheadNonNegative ==
    (/\ call.op = "makeFRIScheme" /\ call.pc = "returned"
     /\ call.datasize >= 1 /\ IsOk(call.ret)) =>
        /\ call.ret.val.opening_overhead
               = call.ret.config.authsize - call.ret.config.batchsize * call.fsize
        /\ call.ret.val.opening_overhead >= 0

\* C12: whenever makeFRIScheme, called on datasize >= 1, invrate >= 1 and
\* fsize >= 1, returns a Scheme, the code of the Scheme can hold the data:
\* with k = basedimension * fanin^rounds of the chosen configuration,
\* k * batchsize >= ceil(datasize / fsize), the code has msg_len = k and
\* msg_len * size_msg_symbol >= datasize, and codeword_len = invrate * msg_len
C12_FriCodeHoldsData ==
    (/\ call.op = "makeFRIScheme" /\ call.pc = "returned"
     /\ call.datasize >= 1 /\ call.invrate >= 1 /\ call.fsize >= 1
     /\ IsOk(call.ret)) =>
        LET config == call.ret.config
            k == config.basedimension * (config.fanin ^ config.rounds)
        IN  /\ scheme = call.ret.val
            /\ k * config.batchsize >= CeilDiv(call.datasize, call.fsize)
            /\ scheme.code.msg_len = k
            /\ scheme.code.msg_len * scheme.code.size_msg_symbol >= call.datasize
            /\ scheme.code.codeword_len = call.invrate * scheme.code.msg_len

\* makeFRIScheme(5000 * 128, 4, 128) has returned a Scheme of one round: the
\* configuration (20, 16, 16) gives k = 256, and the code has 256 message
\* symbols of 2560 bits and 1024 codeword symbols
C12_Witness ==
    /\ call.op = "makeFRIScheme" /\ call.pc = "returned"
    /\ call.datasize = 5000 * 128 /\ call.invrate = 4 /\ call.fsize = 128
    /\ IsOk(call.ret)
    /\ call.ret.config.batchsize = 20 /\ call.ret.config.fanin = 16
    /\ call.ret.config.basedimension = 16 /\ call.ret.config.rounds = 1
    /\ scheme.code.msg_len = 256 /\ scheme.code.size_msg_symbol = 2560
    /\ scheme.code.codeword_len = 1024

-----------------------------------------------------------------------------
(* The client of the schemes: a scheme constructor is called with drawn
   arguments; the methods of the Scheme it returned are then called. *)

\* the data sizes in bits, and the inverse rates, the constructors are called on
SchemeDataSizes == {0, 1, 400, 1000, 3072, 10000}
SchemeInvRates == {2, 4}

SchemeCalls ==
    {[op |-> "makeNaiveScheme", datasize |-> d] : d \in SchemeDataSizes}
    \cup
    {[op |-> "makeMerkleScheme", datasize |-> d, chunksize |-> 1024] :
        d \in SchemeDataSizes}
    \cup
    {[op |-> "makeKZGScheme", datasize |-> d, invrate |-> i] :
        d \in SchemeDataSizes, i \in SchemeInvRates}
    \cup
    {[op |-> "makeTensorScheme", datasize |-> d, invrate |-> i] :
        d \in SchemeDataSizes, i \in SchemeInvRates}
    \cup
    {[op |-> "makeHashBasedScheme", datasize |-> d, fsize |-> 32, P |-> 8,
      L |-> 64, invrate |-> i] : d \in SchemeDataSizes, i \in SchemeInvRates}
    \cup
    {[op |-> "makeHomHashBasedScheme", datasize |-> d, P |-> 2, L |-> 2,
      invrate |-> i] : d \in SchemeDataSizes, i \in SchemeInvRates}
    \cup
    {[op |-> "makeFRIScheme", datasize |-> d, invrate |-> 4, fsize |-> 128] :
        d \in SchemeDataSizes}

InitScheme ==
    /\ code = NoCode
    /\ scheme = NoScheme
    /\ call \in {Called(c) : c \in SchemeCalls}

\* the constructor called returns r: the client keeps the Scheme, if any
Construct(r) ==
    /\ call' = Returned(r)
    /\ scheme' = IF IsOk(call'.ret) THEN call'.ret.val ELSE scheme
    /\ UNCHANGED code

MakeNaiveSchemeCall ==
    /\ call.op = "makeNaiveScheme" /\ call.pc = "called"
    /\ Construct(makeNaiveScheme(call.datasize))

MakeMerkleSchemeCall ==
    /\ call.op = "makeMerkleScheme" /\ call.pc = "called"
    /\ Construct(makeMerkleScheme(call.datasize, call.chunksize))

MakeKZGSchemeCall ==
    /\ call.op = "makeKZGScheme" /\ call.pc = "called"
    /\ Construct(makeKZGScheme(call.datasize, call.invrate))

MakeTensorSchemeCall ==
    /\ call.op = "makeTensorScheme" /\ call.pc = "called"
    /\ Construct(makeTensorScheme(call.datasize, call.invrate))

MakeHashBasedSchemeCall ==
    /\ call.op = "makeHashBasedScheme" /\ call.pc = "called"
    /\ Construct(makeHashBasedScheme(call.datasize, call.fsize, call.P, call.L,
                                     call.invrate))

MakeHomHashBasedSchemeCall ==
    /\ call.op = "makeHomHashBasedScheme" /\ call.pc = "called"
    /\ Construct(makeHomHashBasedScheme(call.datasize, call.P, call.L,
                                        call.invrate))

MakeFRISchemeOfClient ==
    /\ call.op = "makeFRIScheme" /\ call.pc = "called"
    /\ Construct(makeFRIScheme(call.datasize, call.invrate, call.fsize))

\* a method of the Scheme held is called
HoldsScheme == call.pc = "returned" /\ scheme # NoScheme

\* the method op returns r
Method(op, r) ==
    /\ call' = [op |-> op, pc |-> "returned", ret |-> r]
    /\ UNCHANGED <<code, scheme>>

SamplesCall ==
    /\ HoldsScheme
    /\ Method("samples", samples(scheme, SECPAR_SOUND))

TotalCommCall ==
    /\ HoldsScheme
    /\ Method("total_comm", total_comm(scheme))

CommPerQueryCall ==
    /\ HoldsScheme
    /\ Method("comm_per_query", comm_per_query(scheme))

EncodingSizeCall ==
    /\ HoldsScheme
    /\ Method("encoding_size", Ok(encoding_size(scheme)))

NextScheme ==
    \/ MakeNaiveSchemeCall
    \/ MakeMerkleSchemeCall
    \/ MakeKZGSchemeCall
    \/ MakeTensorSchemeCall
    \/ MakeHashBasedSchemeCall
    \/ MakeHomHashBasedSchemeCall
    \/ MakeFRISchemeOfClient
    \/ SamplesCall
    \/ TotalCommCall
    \/ CommPerQueryCall
    \/ EncodingSizeCall

SpecScheme == InitScheme /\ [][NextScheme]_vars

-----------------------------------------------------------------------------
(* Properties of the schemes, checked under SpecScheme *)

\* C2: on every Scheme a constructor returned, samples() returns the stored
\* code.samples and total_comm() returns comm_per_query() * samples(), and
\* neither call raises an error
C2_SamplesAndTotalComm ==
    /\ (call.op = "samples" /\ call.pc = "returned") =>
           (IsOk(call.ret) /\ call.ret.val = scheme.code.samples)
    /\ (call.op = "total_comm" /\ call.pc = "returned") =>
           (/\ IsOk(call.ret)
            /\ IsOk(comm_per_query(scheme))
            /\ call.ret.val = FloatTimes(comm_per_query(scheme).val,
                                         scheme.code.samples))

=============================================================================
